---------------------------- MODULE Spec2Model ----------------------------
(***************************************************************************)
(* ShadowAttack, LISA pipeline (src/lisa.py).                              *)
(*                                                                         *)
(* Three programs of the file are modelled, each under its own             *)
(* specification over the same variables:                                  *)
(*   SpecHarness  the frame-sequence harness, lisa.py __main__             *)
(*   SpecAug      the function adversarial_augmentation on bounded inputs  *)
(*   SpecTrain    train_model / training / model_epoch, then test_model    *)
(* The variables of the programs a specification does not run keep their   *)
(* idle values.                                                            *)
(***************************************************************************)
EXTENDS Integers, Sequences, FiniteSets, TLC

VARIABLES
    \* ---- the harness, lisa.py:233-255
    listing,        \* what os.listdir returned, in the order it returned it
    images,         \* the list `images` once sorted
    hpc,            \* position of __main__: "listed","loop","done","fatal"
    idx,            \* 1-based position of the for loop over images
    fail,           \* the counter `fail`
    failed_images,  \* the list `failed_images`
    hlog,           \* Logger.log of the harness logger
    log_file,       \* content of the file at sys.argv[2], NoFile if unwritten
    evaluated,      \* the img_path arguments test_single_image was called with
    \* ---- adversarial_augmentation as a function, lisa.py:159-173
    apc,            \* "input","returned","raised"
    a_data,         \* ori_data_train
    a_labels,       \* ori_labels_train
    a_draws,        \* the random shadow draw of every sample
    a_out,          \* what the call returned
    \* ---- training and batch evaluation, lisa.py:98-207
    files,          \* the checkpoint directory ./model: path -> content
    writes,         \* the paths torch.save has written, in order
    adv_train,      \* the mode flag of the run
    train_pkl,      \* the archive ./dataset/LISA/train.pkl
    test_pkl,       \* the archive ./dataset/LISA/test.pkl
    train_data,     \* the argument train_data of training
    train_labels,   \* the argument train_labels of training
    tpc,            \* position of training: "epoch_start","train","eval",
                    \* "save","done","fatal"
    epoch,          \* the loop variable `epoch` (0-based)
    extra_train,    \* this epoch's training data, <<>> once deleted
    extra_labels,   \* this epoch's training labels
    batch,          \* 1-based number of the next batch of the running pass
    acc,            \* the running `acc` of the evaluation pass
    params,         \* the classifier's parameters (its state_dict)
    sched,          \* MultiStepLR with its optimizer's learning rate
    rng,            \* draws taken so far from the seeded numpy generator
    tlog,           \* Logger.log of training's logger
    logged_test_acc,\* the value of the latest "Test Acc:" entry of tlog
    tm_pc,          \* position of test_model: "idle","done","fatal"
    tm_flag,        \* the adv_model argument test_model was called with
    tm_acc          \* the value test_model logged

hvars == <<listing, images, hpc, idx, fail, failed_images, hlog, log_file, evaluated>>
avars == <<apc, a_data, a_labels, a_draws, a_out>>
tvars == <<files, writes, adv_train, train_pkl, test_pkl, train_data, train_labels,
           tpc, epoch, extra_train, extra_labels, batch, acc, params, sched, rng,
           tlog, logged_test_acc, tm_pc, tm_flag, tm_acc>>
vars == <<hvars, avars, tvars>>

\* A file is <<>> while it does not exist and <<content>> once written.
NoFile == <<>>

FileOf(content) == <<content>>

Content(file) == file[1]

(***************************************************************************)
(* Bounds of the model.                                                    *)
(***************************************************************************)
MaxFiles == 3     \* files in a frame directory
MaxN == 3         \* samples handed to adversarial_augmentation on its own
MaxHalfBatches == 2   \* the larger training archives hold k half batches and one sample

(***************************************************************************)
(* Logger, lisa.py:32-45.  An entry of Logger.log is text+end; the model   *)
(* keeps the two parts of the concatenation apart.                         *)
(***************************************************************************)
Logger_add(log, text, end) == Append(log, [text |-> text, end |-> end])

Logger_save(log) == FileOf(log)

\* The lines of the saved file: how many entries end a line.
LineCount(log) == Cardinality({k \in 1..Len(log) : log[k].end = "\n"})

\* The mode left out of the name.
TrainPath_OneName(adv) == "./model/" \o "model_lisa.pth"

(***************************************************************************)
(* Checkpoint paths: the f-strings of lisa.py:156, 193 and 214.            *)
(***************************************************************************)
TrainPath(adv) == "./model/" \o (IF adv THEN "adv_" ELSE "") \o "model_lisa.pth"

TestModelPath(adv_model) == "./model/" \o (IF adv_model THEN "adv_" ELSE "") \o "model_lisa.pth"

SingleImagePath(adv_model) == "./model/" \o (IF adv_model THEN "adv_" ELSE "") \o "model_lisa.pth"

Paths == {"./model/model_lisa.pth", "./model/adv_model_lisa.pth"}

(***************************************************************************)
(* File names are sequences of characters.  FileNames is the universe the  *)
(* frame directories are drawn from: plain frames, a two-digit frame, a    *)
(* zero-padded frame, a name with two dots, a name with a letter stem and  *)
(* a dot file.                                                             *)
(***************************************************************************)
FileNames ==
    { <<"0", ".", "j">>, <<"1", ".", "j">>, <<"2", ".", "j">>,
      <<"1", "0", ".", "j">>, <<"0", "1", ".", "p">>,
      <<"1", ".", "5", ".", "j">>, <<"a", ".", "j">>, <<".", "j">> }

Digits == {"0", "1", "2", "3", "4", "5", "6", "7", "8", "9"}

DigitVal(c) ==
    CASE c = "0" -> 0 [] c = "1" -> 1 [] c = "2" -> 2 [] c = "3" -> 3
      [] c = "4" -> 4 [] c = "5" -> 5 [] c = "6" -> 6 [] c = "7" -> 7
      [] c = "8" -> 8 [] c = "9" -> 9

\* x.split(".")[0]: the characters before the first dot, all of x without one.
RECURSIVE Split0(_)
Split0(x) ==
    IF x = <<>> \/ Head(x) = "." THEN <<>>
    ELSE <<Head(x)>> \o Split0(Tail(x))

\* The value of a string of decimal digits, most significant first.
RECURSIVE DecimalVal(_, _)
DecimalVal(s, v) ==
    IF s = <<>> THEN v
    ELSE DecimalVal(Tail(s), 10 * v + DigitVal(Head(s)))

\* int(s) of Python on the characters the model has: an optional sign, then
\* one or more decimal digits; anything else raises ValueError (ok = FALSE).
IntParse(s) ==
    LET signed == s # <<>> /\ Head(s) \in {"-", "+"}
        body   == IF signed THEN Tail(s) ELSE s
        good   == body # <<>> /\ \A i \in 1..Len(body) : body[i] \in Digits
    IN  IF ~good THEN [ok |-> FALSE, val |-> 0]
        ELSE [ok |-> TRUE,
              val |-> IF signed /\ Head(s) = "-"
                      THEN 0 - DecimalVal(body, 0) ELSE DecimalVal(body, 0)]

\* A key that takes a stem int() rejects as 0 instead of raising.
SortKey_Lenient(x) ==
    IF IntParse(Split0(x)).ok THEN IntParse(Split0(x)) ELSE [ok |-> TRUE, val |-> 0]

\* The sort key of lisa.py:242, lambda x: int(x.split(".")[0]).
SortKey(x) == IntParse(Split0(x))

\* list.sort is stable: an element goes after every element whose key is not
\* larger than its own.
RECURSIVE InsertByKey(_, _)
InsertByKey(sorted, x) ==
    IF sorted = <<>> THEN <<x>>
    ELSE IF SortKey(Head(sorted)).val <= SortKey(x).val
         THEN <<Head(sorted)>> \o InsertByKey(Tail(sorted), x)
         ELSE <<x>> \o sorted

RECURSIVE StableSort(_)
StableSort(l) ==
    IF l = <<>> THEN <<>>
    ELSE InsertByKey(StableSort(SubSeq(l, 1, Len(l) - 1)), l[Len(l)])

\* images.sort forgotten: the listing order is kept.
SortImages_ListingOrder(l) ==
    IF \E i \in 1..Len(l) : ~SortKey(l[i]).ok
    THEN [raised |-> TRUE, images |-> l]
    ELSE [raised |-> FALSE, images |-> l]

\* images.sort(key=...): list.sort computes the key of every element first, so
\* one ValueError leaves the call without a result.
SortImages(l) ==
    IF \E i \in 1..Len(l) : ~SortKey(l[i]).ok
    THEN [raised |-> TRUE, images |-> l]
    ELSE [raised |-> FALSE, images |-> StableSort(l)]

\* The img_path of lisa.py:248 for a frame of the directory.
ImgPath(img) == <<"./videos/", "frames_dir", "/", img>>

GroundTruth == 9

\* The classes the classifier is let to answer for a frame.
Predictions == {GroundTruth - 1, GroundTruth, GroundTruth + 1}

\* The listings of a directory: every order of every set of at most n names.
RECURSIVE Listings(_, _)
Listings(names, n) ==
    IF n = 0 THEN {<<>>}
    ELSE {<<>>} \cup
         UNION { { <<x>> \o l : l \in Listings(names \ {x}, n - 1) } : x \in names }

(***************************************************************************)
(* test_single_image, lisa.py:210-230, as called from the harness.  The    *)
(* checkpoint is read from SingleImagePath(adv_model); the class the       *)
(* network answers for an image is an input of the model.                  *)
(***************************************************************************)
test_single_image(log, index, ground_truth) ==
    LET l1 == Logger_add(log, <<"Correct:", index = ground_truth>>, " ")
        l2 == Logger_add(l1, <<"Predict:", index>>, "\n")
    IN  [log |-> l2, index |-> index, res |-> (index = ground_truth)]

\* A correct frame takes the latest recorded failure back.
RecordVerdict_Offset(n, names, img, res) ==
    IF res = FALSE
    THEN [fail |-> n + 1, failed_images |-> Append(names, img)]
    ELSE IF n = 0 THEN [fail |-> n, failed_images |-> names]
    ELSE [fail |-> n - 1, failed_images |-> SubSeq(names, 1, Len(names) - 1)]

\* lisa.py:249-251: a frame whose verdict is False is counted and its name
\* appended; a correct frame leaves both as they are.
RecordVerdict(n, names, img, res) ==
    IF res = FALSE
    THEN [fail |-> n + 1, failed_images |-> Append(names, img)]
    ELSE [fail |-> n, failed_images |-> names]

(***************************************************************************)
(* adversarial_augmentation, lisa.py:159-173.  An image is an identifier   *)
(* of its pixel buffer; a shadow twin is the value the external primitives *)
(* draw_shadow and shadow_edge_blur (utils.py) return for an image, the    *)
(* position list of its label and the random draw.                         *)
(***************************************************************************)
ImageIds == {"a", "b"}

ZeroImage == "zeros"

UnregisteredLabel == 2

LabelSet == {0, 1, UnregisteredLabel}

Draws == {0, 1}

\* position_list[judge_mask_type("LISA", label)]: the mask template of a
\* label; a label without a template raises.
MaskRegistered(label) == label # UnregisteredLabel

PosList(label) == <<"pos_list", label>>

\* shadow_edge_blur(draw_shadow(draw, image, pos_list, draw), 3): a new buffer.
ShadowTwin(image, pos_list, draw) ==
    [shadow_of |-> image, pos_list |-> pos_list, draw |-> draw]

\* numpy's a[k::2] = b for b of one dimension: b is taken element by element
\* when the lengths agree, and repeated when b has one element; any other
\* length raises ValueError.
Broadcastable(b, n) == Len(b) = n \/ Len(b) = 1

BroadcastAt(b, i) == IF Len(b) = 1 THEN b[1] ELSE b[i]

\* labels_train[1::2] left out of the assignment of line 165: the twins keep
\* the zeros of line 163.
adversarial_augmentation_TwinLabels(ori_data_train, ori_labels_train, draws) ==
    LET num_data == Len(ori_data_train)
        labels_train == [k \in 1..(num_data * 2) |->
                           IF k % 2 = 1 THEN BroadcastAt(ori_labels_train, (k + 1) \div 2)
                           ELSE 0]
        data_train == [k \in 1..(num_data * 2) |->
                         IF k % 2 = 1 THEN ori_data_train[(k + 1) \div 2]
                         ELSE ShadowTwin(ori_data_train[k \div 2],
                                         PosList(labels_train[k - 1]), draws[k \div 2])]
    IN  IF ~Broadcastable(ori_labels_train, num_data)
           \/ \E i \in 1..num_data : ~MaskRegistered(labels_train[2 * i - 1])
        THEN [raised |-> TRUE, data |-> <<>>, labels |-> <<>>]
        ELSE [raised |-> FALSE, data |-> data_train, labels |-> labels_train]

adversarial_augmentation(ori_data_train, ori_labels_train, draws) ==
    LET num_data == Len(ori_data_train)
        \* lines 162, 164: zeros, then the even slots (0-based) are the originals
        data0 == [k \in 1..(num_data * 2) |->
                    IF k % 2 = 1 THEN ori_data_train[(k + 1) \div 2] ELSE ZeroImage]
        \* lines 163, 165: both halves are assigned the original labels
        labels_ok == Broadcastable(ori_labels_train, num_data)
        labels_train == [k \in 1..(num_data * 2) |->
                           BroadcastAt(ori_labels_train, (k + 1) \div 2)]
        \* lines 167-171: slot i+1 is the shadow twin of slot i
        masks_ok == \A i \in 1..num_data : MaskRegistered(labels_train[2 * i - 1])
        data_train == [k \in 1..(num_data * 2) |->
                         IF k % 2 = 1 THEN data0[k]
                         ELSE ShadowTwin(data0[k - 1], PosList(labels_train[k - 1]),
                                         draws[k \div 2])]
    IN  IF ~labels_ok THEN [raised |-> TRUE, data |-> <<>>, labels |-> <<>>]
        ELSE IF ~masks_ok THEN [raised |-> TRUE, data |-> <<>>, labels |-> <<>>]
        ELSE [raised |-> FALSE, data |-> data_train, labels |-> labels_train]

\* All sequences over S of length at most n.
RECURSIVE SeqsUpTo(_, _)
SeqsUpTo(S, n) ==
    IF n = 0 THEN {<<>>}
    ELSE LET shorter == SeqsUpTo(S, n - 1)
         IN  shorter \cup { Append(q, x) : q \in {r \in shorter : Len(r) = n - 1}, x \in S }

(***************************************************************************)
(* The classifier.  Its parameters are kept as the answer they give for    *)
(* every image: an optimizer step may move them to any such function, and  *)
(* nothing else moves them.                                                *)
(***************************************************************************)
ParamSpace == [ImageIds -> {0, 1}]

InitialParams == [i \in ImageIds |-> 0]

PriorCheckpoint == [i \in ImageIds |-> 1]

NoValue == 0 - 1

num_epoch == 100

batch_size == 16

\* lisa.py:122 and 124, the rates in units of 1e-4 and gamma in tenths.
InitialLr == 200

GammaTenths == 2

Milestone == 50

NewScheduler == [last_epoch |-> 0, lr |-> InitialLr]

\* MultiStepLR.step: the epoch counter goes up by one and the rate is scaled
\* by gamma when the counter reaches a milestone.
MultiStepLR_step(s) ==
    [last_epoch |-> s.last_epoch + 1,
     lr |-> IF s.last_epoch + 1 = Milestone THEN (s.lr * GammaTenths) \div 10 ELSE s.lr]

\* TrafficSignDataset.__len__, lisa.py:54-55: the length of x alone.
DatasetLen(x, y) == Len(x)

\* The batches a DataLoader makes of n samples.
NumBatches(n, size) == (n + size - 1) \div size

\* The optimizer step taken whatever `train` says.
model_epoch_batch_AlwaysStep(p, train, new) == new

\* lisa.py:105-108: the parameters after a batch; new is where the optimizer
\* step would take them.
model_epoch_batch(p, train, new) == IF train THEN new ELSE p

\* lisa.py:109: the correct answers among samples lo..hi.
Correct(p, x, y, lo, hi) == Cardinality({i \in lo..hi : p[x[i]] = y[i]})

\* The scheduler stepped whether or not one was passed.
model_epoch_end_AlwaysStep(s, scheduler_given) == MultiStepLR_step(s)

\* lisa.py:112-113: the scheduler after the batches of a pass.
model_epoch_end(s, scheduler_given) == IF scheduler_given THEN MultiStepLR_step(s) ELSE s

\* round(float(a / n), 4) in units of 1e-4.
Round4(a, n) == (2 * 10000 * a + n) \div (2 * n)

\* The k-th draw of the numpy generator seeded by seed_everything.
StreamDraw(k) == (k + k \div 3) % 2

\* The augmented set assigned back to the arguments: the next epoch augments
\* this epoch's output.
EpochData_Compounding(data, labels, adv, draws) ==
    IF adv
    THEN LET r == adversarial_augmentation(data, labels, draws)
         IN  [raised |-> r.raised, extra_train |-> r.data, extra_labels |-> r.labels,
              train_data |-> IF r.raised THEN data ELSE r.data,
              train_labels |-> IF r.raised THEN labels ELSE r.labels]
    ELSE [raised |-> FALSE, extra_train |-> data, extra_labels |-> labels,
          train_data |-> data, train_labels |-> labels]

\* lisa.py:128-129: the data of an epoch, and the arguments as they are after.
EpochData(data, labels, adv, draws) ==
    IF adv
    THEN LET r == adversarial_augmentation(data, labels, draws)
         IN  [raised |-> r.raised, extra_train |-> r.data, extra_labels |-> r.labels,
              train_data |-> data, train_labels |-> labels]
    ELSE [raised |-> FALSE, extra_train |-> data, extra_labels |-> labels,
          train_data |-> data, train_labels |-> labels]

\* lisa.py:155-156: torch.save of the state_dict under the mode's name.
Checkpoint(disk, p, adv) == [disk EXCEPT ![TrainPath(adv)] = FileOf(p)]

\* end=' ' left out of the "Test Acc:" entry: it ends a line of its own.
LogEpoch_TwoLines(log, e) ==
    LET l1 == Logger_add(log, <<"epoch", e + 1, num_epoch>>, " ")
        l2 == Logger_add(l1, <<"Train Acc:">>, " ")
        l3 == Logger_add(l2, <<"Loss:">>, " | ")
        l4 == Logger_add(l3, <<"Test Acc:">>, "\n")
    IN  Logger_add(l4, <<"Loss:">>, "\n")

\* lisa.py:146-150: the five entries of an epoch.
LogEpoch(log, e) ==
    LET l1 == Logger_add(log, <<"epoch", e + 1, num_epoch>>, " ")
        l2 == Logger_add(l1, <<"Train Acc:">>, " ")
        l3 == Logger_add(l2, <<"Loss:">>, " | ")
        l4 == Logger_add(l3, <<"Test Acc:">>, " ")
    IN  Logger_add(l4, <<"Loss:">>, "\n")

\* The archives of a run: n samples, images and labels alternating, and a
\* label sequence one shorter, as long, or one longer than the data.
ArchiveData(n) == [i \in 1..n |-> IF i % 2 = 1 THEN "a" ELSE "b"]

ArchiveLabels(n) == [i \in 1..n |-> (i + 1) % 2]

Archives(n) == { [data |-> ArchiveData(n), labels |-> ArchiveLabels(m)] : m \in {n - 1, n, n + 1} }

TrainSizes == {2} \cup { k * (batch_size \div 2) + 1 : k \in 1..MaxHalfBatches }

TestSize == 2

(***************************************************************************)
(* The harness, lisa.py:241-255.                                           *)
(***************************************************************************)
HarnessIdle ==
    /\ listing = <<>> /\ images = <<>> /\ hpc = "idle" /\ idx = 0 /\ fail = 0
    /\ failed_images = <<>> /\ hlog = <<>> /\ log_file = NoFile /\ evaluated = <<>>

AugIdle ==
    /\ apc = "idle" /\ a_data = <<>> /\ a_labels = <<>> /\ a_draws = <<>>
    /\ a_out = <<>>

\* The state of ./model before a run: empty, or a checkpoint of an earlier
\* run under each name.
PriorDisks == { [p \in Paths |-> NoFile], [p \in Paths |-> FileOf(PriorCheckpoint)] }

TrainIdle ==
    /\ writes = <<>>
    /\ adv_train = FALSE
    /\ train_pkl = <<>> /\ test_pkl = <<>> /\ train_data = <<>> /\ train_labels = <<>>
    /\ tpc = "idle" /\ epoch = 0 /\ extra_train = <<>> /\ extra_labels = <<>>
    /\ batch = 0 /\ acc = 0 /\ params = InitialParams /\ sched = NewScheduler
    /\ rng = 0 /\ tlog = <<>> /\ logged_test_acc = NoValue
    /\ tm_pc = "idle" /\ tm_flag = FALSE /\ tm_acc = NoValue

HarnessInit ==
    /\ listing \in Listings(FileNames, MaxFiles)
    /\ images = <<>>
    /\ hpc = "listed"
    /\ idx = 0
    /\ fail = 0
    /\ failed_images = <<>>
    /\ hlog = <<>>
    /\ log_file = NoFile
    /\ evaluated = <<>>
    /\ files \in PriorDisks
    /\ TrainIdle
    /\ AugIdle

\* lisa.py:241-246: the listing is sorted by the integer value of the stem.
Main_Sort ==
    /\ hpc = "listed"
    /\ LET s == SortImages(listing)
       IN  IF s.raised
           THEN /\ hpc' = "fatal"
                /\ UNCHANGED <<images, idx, hlog>>
           ELSE /\ images' = s.images
                /\ hlog' = Logger_add(hlog, <<"Total frames:", Len(s.images)>>, "\n")
                /\ idx' = 1
                /\ hpc' = "loop"
    /\ fail' = 0
    /\ failed_images' = <<>>
    /\ UNCHANGED <<listing, log_file, evaluated, avars, tvars>>

\* lisa.py:247-251, one iteration: the frame is read and classified.
Main_Frame ==
    /\ hpc = "loop"
    /\ idx <= Len(images)
    /\ files[SingleImagePath(FALSE)] # NoFile
    /\ \E index \in Predictions :
         LET r == test_single_image(hlog, index, GroundTruth)
             v == RecordVerdict(fail, failed_images, images[idx], r.res)
         IN  /\ hlog' = r.log
             /\ fail' = v.fail
             /\ failed_images' = v.failed_images
    /\ evaluated' = Append(evaluated, ImgPath(images[idx]))
    /\ idx' = idx + 1
    /\ UNCHANGED <<listing, images, hpc, log_file, avars, tvars>>

\* lisa.py:212-215 and 218-219 inside the loop: torch.load of a missing
\* checkpoint, or cv2.resize of an image cv2.imread could not read, raises.
Main_FrameRaises ==
    /\ hpc = "loop"
    /\ idx <= Len(images)
    /\ evaluated' = Append(evaluated, ImgPath(images[idx]))
    /\ hpc' = "fatal"
    /\ UNCHANGED <<listing, images, idx, fail, failed_images, hlog, log_file, avars, tvars>>

\* lisa.py:253-255: the report and the one save of the log.
Main_Report ==
    /\ hpc = "loop"
    /\ idx > Len(images)
    /\ LET l1 == Logger_add(hlog, <<"Failed:", fail>>, "\n")
           l2 == Logger_add(l1, <<"str", failed_images>>, "\n")
       IN  /\ hlog' = l2
           /\ log_file' = Logger_save(l2)
    /\ hpc' = "done"
    /\ UNCHANGED <<listing, images, idx, fail, failed_images, evaluated, avars, tvars>>

HarnessNext == Main_Sort \/ Main_Frame \/ Main_FrameRaises \/ Main_Report

SpecHarness == HarnessInit /\ [][HarnessNext]_vars

(***************************************************************************)
(* adversarial_augmentation called once on bounded inputs.                 *)
(***************************************************************************)
AugInit ==
    /\ apc = "input"
    /\ a_data \in SeqsUpTo(ImageIds, MaxN)
    /\ a_labels \in SeqsUpTo(LabelSet, MaxN)
    /\ a_draws \in [1..Len(a_data) -> Draws]
    /\ a_out = <<>>
    /\ HarnessIdle
    /\ files = [p \in Paths |-> NoFile]
    /\ TrainIdle

Aug_Return ==
    /\ apc = "input"
    /\ LET r == adversarial_augmentation(a_data, a_labels, a_draws)
       IN  /\ ~r.raised
           /\ a_out' = <<r.data, r.labels>>
    /\ apc' = "returned"
    /\ UNCHANGED <<a_data, a_labels, a_draws, hvars, tvars>>

Aug_Raise ==
    /\ apc = "input"
    /\ adversarial_augmentation(a_data, a_labels, a_draws).raised
    /\ apc' = "raised"
    /\ UNCHANGED <<a_data, a_labels, a_draws, a_out, hvars, tvars>>

AugNext == Aug_Return \/ Aug_Raise

SpecAug == AugInit /\ [][AugNext]_vars

(***************************************************************************)
(* train_model and training, lisa.py:118-156 and 176-186, then test_model, *)
(* lisa.py:189-207.                                                        *)
(***************************************************************************)
TrainInit ==
    /\ adv_train \in BOOLEAN
    /\ train_pkl \in UNION { Archives(n) : n \in TrainSizes }
    /\ test_pkl \in Archives(TestSize)
    /\ train_data = train_pkl.data
    /\ train_labels = train_pkl.labels
    /\ files \in PriorDisks
    /\ writes = <<>>
    /\ tpc = "epoch_start"
    /\ epoch = 0
    /\ extra_train = <<>>
    /\ extra_labels = <<>>
    /\ batch = 0
    /\ acc = 0
    /\ params = InitialParams
    /\ sched = NewScheduler
    /\ rng = 0
    /\ tlog = <<>>
    /\ logged_test_acc = NoValue
    /\ tm_pc = "idle"
    /\ tm_flag = FALSE
    /\ tm_acc = NoValue
    /\ HarnessIdle
    /\ AugIdle

\* lisa.py:126-136: the epoch's data and its loaders.
Epoch_Start ==
    /\ tpc = "epoch_start"
    /\ LET draws == [i \in 1..Len(train_data) |-> StreamDraw(rng + i)]
           r == EpochData(train_data, train_labels, adv_train, draws)
       IN  /\ train_data' = r.train_data
           /\ train_labels' = r.train_labels
           /\ IF r.raised
              THEN /\ tpc' = "fatal"
                   /\ UNCHANGED <<extra_train, extra_labels, batch>>
              ELSE /\ extra_train' = r.extra_train
                   /\ extra_labels' = r.extra_labels
                   /\ batch' = 1
                   /\ tpc' = "train"
    /\ rng' = IF adv_train THEN rng + Len(train_data) ELSE rng
    /\ UNCHANGED <<files, writes, adv_train, train_pkl, test_pkl, epoch, acc, params,
                   sched, tlog, logged_test_acc, tm_pc, tm_flag, tm_acc, hvars, avars>>

\* lisa.py:102-110 with train=True: one batch of the shuffled loader.  With
\* fewer labels than samples a batch holding a sample without a label can
\* come at any place, and comes at the last place at the latest.
Train_Batch ==
    /\ tpc = "train"
    /\ batch <= NumBatches(DatasetLen(extra_train, extra_labels), batch_size)
    /\ \/ Len(extra_labels) >= DatasetLen(extra_train, extra_labels)
       \/ batch < NumBatches(DatasetLen(extra_train, extra_labels), batch_size)
    /\ \E new \in ParamSpace : params' = model_epoch_batch(params, TRUE, new)
    /\ batch' = batch + 1
    /\ UNCHANGED <<files, writes, adv_train, train_pkl, test_pkl, train_data, train_labels,
                   tpc, epoch, extra_train, extra_labels, acc, sched, rng, tlog,
                   logged_test_acc, tm_pc, tm_flag, tm_acc, hvars, avars>>

\* lisa.py:57-60 under the loader: self.y[item] of a missing label raises.
Train_BatchRaises ==
    /\ tpc = "train"
    /\ batch <= NumBatches(DatasetLen(extra_train, extra_labels), batch_size)
    /\ Len(extra_labels) < DatasetLen(extra_train, extra_labels)
    /\ tpc' = "fatal"
    /\ UNCHANGED <<files, writes, adv_train, train_pkl, test_pkl, train_data, train_labels,
                   epoch, extra_train, extra_labels, batch, acc, params, sched, rng, tlog,
                   logged_test_acc, tm_pc, tm_flag, tm_acc, hvars, avars>>

\* lisa.py:112-115 of the training pass, then 142-143.
Train_End ==
    /\ tpc = "train"
    /\ batch > NumBatches(DatasetLen(extra_train, extra_labels), batch_size)
    /\ sched' = model_epoch_end(sched, TRUE)
    /\ tpc' = "eval"
    /\ batch' = 1
    /\ acc' = 0
    /\ UNCHANGED <<files, writes, adv_train, train_pkl, test_pkl, train_data, train_labels,
                   epoch, extra_train, extra_labels, params, rng, tlog,
                   logged_test_acc, tm_pc, tm_flag, tm_acc, hvars, avars>>

\* lisa.py:102-110 with train=False: one batch of the unshuffled test loader.
Eval_Batch ==
    /\ tpc = "eval"
    /\ batch <= NumBatches(DatasetLen(test_pkl.data, test_pkl.labels), batch_size)
    /\ LET n  == DatasetLen(test_pkl.data, test_pkl.labels)
           lo == (batch - 1) * batch_size + 1
           hi == IF batch * batch_size < n THEN batch * batch_size ELSE n
       IN  IF hi > Len(test_pkl.labels)
           THEN /\ tpc' = "fatal"
                /\ UNCHANGED <<params, acc, batch>>
           ELSE /\ \E new \in ParamSpace : params' = model_epoch_batch(params, FALSE, new)
                /\ acc' = acc + Correct(params, test_pkl.data, test_pkl.labels, lo, hi)
                /\ batch' = batch + 1
                /\ tpc' = tpc
    /\ UNCHANGED <<files, writes, adv_train, train_pkl, test_pkl, train_data, train_labels,
                   epoch, extra_train, extra_labels, sched, rng, tlog,
                   logged_test_acc, tm_pc, tm_flag, tm_acc, hvars, avars>>

\* lisa.py:112-115 of the evaluation pass, then 146-153.
Epoch_Log ==
    /\ tpc = "eval"
    /\ batch > NumBatches(DatasetLen(test_pkl.data, test_pkl.labels), batch_size)
    /\ sched' = model_epoch_end(sched, FALSE)
    /\ tlog' = LogEpoch(tlog, epoch)
    /\ logged_test_acc' = Round4(acc, DatasetLen(test_pkl.data, test_pkl.labels))
    /\ extra_train' = <<>>
    /\ extra_labels' = <<>>
    /\ epoch' = epoch + 1
    /\ tpc' = IF epoch + 1 < num_epoch THEN "epoch_start" ELSE "save"
    /\ UNCHANGED <<files, writes, adv_train, train_pkl, test_pkl, train_data, train_labels,
                   batch, acc, params, rng, tm_pc, tm_flag, tm_acc, hvars, avars>>

\* lisa.py:155-156.
Save ==
    /\ tpc = "save"
    /\ files' = Checkpoint(files, params, adv_train)
    /\ writes' = Append(writes, TrainPath(adv_train))
    /\ tpc' = "done"
    /\ UNCHANGED <<adv_train, train_pkl, test_pkl, train_data, train_labels,
                   epoch, extra_train, extra_labels, batch, acc, params, sched, rng, tlog,
                   logged_test_acc, tm_pc, tm_flag, tm_acc, hvars, avars>>

\* lisa.py:189-207, called once training has returned: the checkpoint of the
\* mode is loaded and the test archive evaluated; the batches of the
\* unshuffled loader add up to the correct answers among all its samples.
Test_Model ==
    /\ tpc = "done"
    /\ tm_pc = "idle"
    /\ \E adv_model \in BOOLEAN :
         LET loaded == files[TestModelPath(adv_model)]
             n == DatasetLen(test_pkl.data, test_pkl.labels)
         IN  /\ tm_flag' = adv_model
             /\ IF loaded = NoFile \/ n > Len(test_pkl.labels)
                THEN /\ tm_pc' = "fatal"
                     /\ tm_acc' = tm_acc
                ELSE /\ tm_pc' = "done"
                     /\ tm_acc' = Round4(Correct(Content(loaded), test_pkl.data, test_pkl.labels, 1, n), n)
    /\ UNCHANGED <<files, writes, adv_train, train_pkl, test_pkl, train_data, train_labels,
                   tpc, epoch, extra_train, extra_labels, batch, acc, params, sched, rng,
                   tlog, logged_test_acc, hvars, avars>>

TrainNext ==
    \/ Epoch_Start \/ Train_Batch \/ Train_BatchRaises \/ Train_End
    \/ Eval_Batch \/ Epoch_Log \/ Save \/ Test_Model

SpecTrain == TrainInit /\ [][TrainNext]_vars

(***************************************************************************)
(* The claims.                                                             *)
(***************************************************************************)

\* C1: for an original set of N samples with N labels, the returned data and
\* labels have length exactly 2N; slot 2i (0-based) is original sample i
\* unchanged, and label 2i and label 2i+1 are both the original label of
\* sample i, whatever the shadow draws were.
C1_AugmentedSetShape ==
    (apc = "returned" /\ Len(a_labels) = Len(a_data)) =>
        LET N == Len(a_data)
            data == a_out[1]
            labels == a_out[2]
        IN  /\ Len(data) = 2 * N
            /\ Len(labels) = 2 * N
            /\ \A i \in 0..(N - 1) :
                 /\ data[2 * i + 1] = a_data[i + 1]
                 /\ labels[2 * i + 1] = a_labels[i + 1]
                 /\ labels[2 * i + 2] = a_labels[i + 1]

C1_Witness ==
    /\ apc = "returned"
    /\ Len(a_data) = 3 /\ Len(a_labels) = 3
    /\ a_labels[1] # a_labels[2]
    /\ a_draws[1] # a_draws[2]
    /\ a_data[2] # a_data[3]

\* The integer a file name's stem stands for, read off the name itself: the
\* characters before its first dot, as decimal digits.
FirstDot(x) ==
    IF \E i \in 1..Len(x) : x[i] = "."
    THEN CHOOSE i \in 1..Len(x) : x[i] = "." /\ \A j \in 1..(i - 1) : x[j] # "."
    ELSE Len(x) + 1

StemOf(x) == SubSeq(x, 1, FirstDot(x) - 1)

HasIntegerStem(x) ==
    /\ StemOf(x) # <<>>
    /\ \A i \in 1..Len(StemOf(x)) : StemOf(x)[i] \in Digits

RECURSIVE StemValue(_)
StemValue(st) ==
    IF st = <<>> THEN 0
    ELSE 10 * StemValue(SubSeq(st, 1, Len(st) - 1)) + DigitVal(st[Len(st)])

FrameName(img_path) == img_path[4]

\* C2: for a directory of k files with integer stems, in any listing order,
\* the harness reports total_frames = k and calls single-image inference on
\* every file exactly once, in ascending order of the integer value of the
\* stem.
C2_EveryFrameOnceInNumericOrder ==
    (\A i \in 1..Len(listing) : HasIntegerStem(listing[i])) =>
        /\ hpc \in {"loop", "done"} =>
             /\ hlog[1] = [text |-> <<"Total frames:", Len(listing)>>, end |-> "\n"]
             /\ \A i, j \in 1..Len(evaluated) :
                  i < j => StemValue(StemOf(FrameName(evaluated[i])))
                             <= StemValue(StemOf(FrameName(evaluated[j])))
             /\ \A i, j \in 1..Len(evaluated) : i # j => evaluated[i] # evaluated[j]
             /\ \A i \in 1..Len(evaluated) :
                  \E j \in 1..Len(listing) : evaluated[i] = ImgPath(listing[j])
        /\ hpc = "done" =>
             /\ Len(evaluated) = Len(listing)
             /\ \A j \in 1..Len(listing) :
                  \E i \in 1..Len(evaluated) : evaluated[i] = ImgPath(listing[j])

C2_Witness ==
    /\ hpc = "done"
    /\ Len(listing) = 3
    /\ listing[1] = <<"1", "0", ".", "j">>
    /\ listing[2] = <<"2", ".", "j">>
    /\ listing[3] = <<"0", "1", ".", "p">>
    /\ Len(evaluated) = 3

\* The class the log says was predicted for the i-th evaluated frame.
PredictedAt(i) == hlog[2 * i + 1].text[2]

\* The names of the first k evaluated frames whose predicted class is not 9.
RECURSIVE Misclassified(_)
Misclassified(k) ==
    IF k = 0 THEN <<>>
    ELSE IF PredictedAt(k) # 9
         THEN Append(Misclassified(k - 1), FrameName(evaluated[k]))
         ELSE Misclassified(k - 1)

\* C3: the failed-frame list is exactly the names whose predicted class is
\* not 9, in evaluation order and without duplicates, the failure count is
\* its length and at most total_frames, and the saved report states both; a
\* later correct frame takes nothing back.
C3_FailuresAreExactlyTheMisclassified ==
    /\ hpc \in {"loop", "done"} =>
         /\ failed_images = Misclassified(Len(evaluated))
         /\ fail = Len(failed_images)
         /\ fail <= Len(images)
         /\ \A i, j \in 1..Len(failed_images) :
              i # j => failed_images[i] # failed_images[j]
    /\ hpc = "done" =>
         /\ log_file # NoFile
         /\ LET saved == Content(log_file)
            IN  /\ saved[1].text = <<"Total frames:", Len(images)>>
                /\ saved[Len(saved) - 1].text = <<"Failed:", Len(Misclassified(Len(images)))>>
                /\ saved[Len(saved)].text = <<"str", Misclassified(Len(images))>>

\* Frames 0, 1, 2 with only frame 1 misclassified, then reported.
C3_Witness ==
    /\ hpc = "done"
    /\ images = << <<"0", ".", "j">>, <<"1", ".", "j">>, <<"2", ".", "j">> >>
    /\ PredictedAt(1) = 9 /\ PredictedAt(2) # 9 /\ PredictedAt(3) = 9
    /\ failed_images = << <<"1", ".", "j">> >>
    /\ fail = 1

\* C4: the parameters training saves are those that produced the test
\* accuracy logged for the final epoch (the evaluation pass and the steps up
\* to the save leave them alone), and test_model called with the same flag
\* reads that checkpoint, leaves it as it is, and logs the same accuracy.
C4_SavedStateGivesLoggedAccuracy ==
    LET n == DatasetLen(test_pkl.data, test_pkl.labels)
    IN  /\ (tpc = "eval" /\ batch > NumBatches(n, batch_size)) =>
              acc = Correct(params, test_pkl.data, test_pkl.labels, 1, n)
        /\ tpc = "save" =>
              logged_test_acc = Round4(Correct(params, test_pkl.data, test_pkl.labels, 1, n), n)
        /\ tpc = "done" =>
              /\ files[TrainPath(adv_train)] = FileOf(params)
              /\ logged_test_acc =
                   Round4(Correct(Content(files[TrainPath(adv_train)]),
                                  test_pkl.data, test_pkl.labels, 1, n), n)
        /\ (tm_pc = "done" /\ tm_flag = adv_train) => tm_acc = logged_test_acc

C4_Witness ==
    /\ tm_pc = "done"
    /\ tm_flag = adv_train
    /\ tm_acc = 10000
    /\ files[TrainPath(adv_train)] # FileOf(PriorCheckpoint)
    /\ files[TrainPath(adv_train)] # FileOf(InitialParams)

\* The five entries of the line of epoch e (1-based) in a log.
IsEpochLine(log, e) ==
    /\ log[5 * e - 4].text = <<"epoch", e, num_epoch>>
    /\ \A k \in (5 * e - 4)..(5 * e - 1) : log[k].end # "\n"
    /\ log[5 * e].end = "\n"

\* C5: a run emits exactly one newline-terminated metrics line per epoch,
\* carrying the 1-based epoch index, the indices going from 1 to the number
\* of epochs, and writes exactly one checkpoint, after the last epoch's line.
C5_OneLinePerEpochOneCheckpoint ==
    tpc # "idle" =>
        /\ Len(tlog) = 5 * epoch
        /\ epoch > 0 => IsEpochLine(tlog, epoch)
        /\ Len(writes) <= 1
        /\ writes # <<>> => tpc = "done"
        /\ tpc \in {"save", "done"} =>
             /\ epoch = num_epoch
             /\ LineCount(tlog) = num_epoch
             /\ \A e \in 1..num_epoch : IsEpochLine(tlog, e)
        /\ tpc = "done" => writes = <<TrainPath(adv_train)>>

C5_Witness ==
    /\ tpc = "done"
    /\ ~adv_train
    /\ Len(train_pkl.data) = 2
    /\ LineCount(tlog) = num_epoch
    /\ Len(writes) = 1

\* C6: the adversarial and the non-adversarial run write different paths, a
\* run never changes the checkpoint of the other mode, and test_model and
\* test_single_image read, for a flag, the path training writes for it.
C6_CheckpointNamesEncodeMode ==
    /\ [](/\ TrainPath(TRUE) # TrainPath(FALSE)
          /\ \A f \in BOOLEAN : TestModelPath(f) = TrainPath(f)
          /\ \A f \in BOOLEAN : SingleImagePath(f) = TrainPath(f))
    /\ [][\A f \in BOOLEAN :
            f # adv_train => files'[TestModelPath(f)] = files[TestModelPath(f)]]_vars

C6_Witness ==
    /\ tpc = "done"
    /\ adv_train
    /\ files[SingleImagePath(FALSE)] = FileOf(PriorCheckpoint)
    /\ files[TestModelPath(TRUE)] # FileOf(PriorCheckpoint)

C8_LengthMismatchIsFatal ==
    (\/ Len(train_pkl.data) # Len(train_pkl.labels)
     \/ Len(test_pkl.data) # Len(test_pkl.labels)) =>
        /\ logged_test_acc = NoValue
        /\ tpc \notin {"save", "done"}

\* C9: in an adversarial run every epoch's training set is made from the
\* original set: the originals are unchanged after any number of epochs and
\* the set of every epoch has size exactly 2N, its even slots the originals
\* and its odd slots shadows of them; in a non-adversarial run every epoch
\* trains on the original set of size N.
C9_EpochSetFromOriginals ==
    tpc # "idle" =>
        /\ Len(train_data) = Len(train_pkl.data)
        /\ train_data = train_pkl.data
        /\ train_labels = train_pkl.labels
        /\ tpc \in {"train", "eval"} =>
             LET N == Len(train_pkl.data)
             IN  IF adv_train
                 THEN /\ Len(extra_train) = 2 * N
                      /\ Len(extra_labels) = 2 * N
                      /\ \A i \in 1..N :
                           /\ extra_train[2 * i - 1] = train_pkl.data[i]
                           /\ extra_train[2 * i].shadow_of = train_pkl.data[i]
                 ELSE /\ Len(extra_train) = N
                      /\ extra_train = train_pkl.data
                      /\ extra_labels = train_pkl.labels

C9_Witness ==
    /\ adv_train
    /\ tpc = "train"
    /\ epoch = num_epoch - 1
    /\ Len(train_pkl.data) > batch_size
    /\ Len(extra_train) = 2 * Len(train_pkl.data)

\* C10: the scheduler is advanced exactly once per epoch, after the training
\* batches and not in the evaluation pass, so after e completed epochs it has
\* been advanced e times; the rate starts at 0.02 and is scaled by 0.2 once,
\* when the scheduler reaches 50.
C10_SchedulerOncePerEpoch ==
    /\ tpc \in {"epoch_start", "train", "save", "done"} => sched.last_epoch = epoch
    /\ tpc = "eval" => sched.last_epoch = epoch + 1
    /\ tpc # "idle" => sched.lr = (IF sched.last_epoch < 50 THEN 200 ELSE 40)

C10_Witness ==
    /\ tpc = "done"
    /\ sched.last_epoch = 100
    /\ sched.lr = 40
    /\ NumBatches(Len(train_pkl.data), batch_size) = 2

=============================================================================
